---- MODULE Spec2Model ----
(***************************************************************************)
(* Model of classification/models/vessel_characterization_6.py: the Model  *)
(* configuration object, its derived window size, the XOrNan label helper, *)
(* the model function built by make_model_fn and the input-function        *)
(* factories.  External collaborators (layers, objectives, feature         *)
(* generation, the estimator framework) appear only through the calls this *)
(* file makes to them; what they return is an input chosen with \E.        *)
(***************************************************************************)
EXTENDS Integers, Sequences, FiniteSets, TLC

VARIABLES
    \* ---- Model instance (set by __init__) ----
    num_feature_dimensions, training_objectives, objective_map,
    \* ---- one invocation of _model_fn ----
    pc, mode, features, labels, is_train, prediction, i, trace,
    predictions, total_loss, loss_ret, eval_metrics, metric_ret, result, calls,
    \* ---- window_max_points ----
    strides, max_window_duration_seconds, pyround, max_points,
    \* ---- XOrNan / label hand-off ----
    label_call,
    \* ---- input functions ----
    train_stream, test_stream, predict_stream

modelVars == <<num_feature_dimensions, training_objectives, objective_map>>
fnVars == <<pc, mode, features, labels, is_train, prediction, i, trace,
            predictions, total_loss, loss_ret, eval_metrics, metric_ret,
            result, calls>>
windowVars == <<strides, max_window_duration_seconds, pyround, max_points>>
labelVars == <<label_call>>
inputVars == <<train_stream, test_stream, predict_stream>>
nonFnVars == <<modelVars, windowVars, labelVars, inputVars>>
vars == <<modelVars, fnVars, windowVars, labelVars, inputVars>>

(***************************************************************************)
(* Bounds of the model.                                                    *)
(***************************************************************************)
MaxCalls == 2        \* invocations of _model_fn on one Model
MaxBatch == 2        \* distinct feature/label batches handed to _model_fn
MaxLoss == 2         \* loss tensors an objective may return: 1..MaxLoss
MaxDims == 2         \* num_feature_dimensions: 1..MaxDims

(***************************************************************************)
(* tf.estimator.ModeKeys and values outside it.                            *)
(***************************************************************************)
TRAIN == "train"
EVAL == "eval"
PREDICT == "infer"
OtherModes == {"export", "None"}
Modes == {TRAIN, EVAL, PREDICT} \cup OtherModes

(***************************************************************************)
(* Model.__init__: the objective list and objective_map.                   *)
(* label_from is the third constructor argument: an XOrNan(key) instance   *)
(* for the regression objectives, the metadata provider itself for the     *)
(* classification objective.  loss_weight is kept in tenths.               *)
(***************************************************************************)
Objective(cls, name, metadata_label, label_from, key, w10) ==
    [cls |-> cls, name |-> name, metadata_label |-> metadata_label,
     label_from |-> label_from, key |-> key, loss_weight10 |-> w10]

\* variant: the second objective constructed under the first one's name
InitObjectives_DuplicateName ==
    << Objective("LogRegressionObjectiveMAE", "length", "Vessel-length",
                 "XOrNan", "length", 1),
       Objective("LogRegressionObjectiveMAE", "length", "Vessel-tonnage",
                 "XOrNan", "tonnage", 1),
       Objective("LogRegressionObjectiveMAE", "engine_power",
                 "Vessel-engine-Power", "XOrNan", "engine_power", 1),
       Objective("LogRegressionObjectiveMAE", "crew_size", "Vessel-Crew-Size",
                 "XOrNan", "crew_size", 1),
       Objective("MultiClassificationObjective", "Multiclass", "Vessel-class",
                 "vessel_metadata", "", 10) >>

InitObjectives ==
    << Objective("LogRegressionObjectiveMAE", "length", "Vessel-length",
                 "XOrNan", "length", 1),
       Objective("LogRegressionObjectiveMAE", "tonnage", "Vessel-tonnage",
                 "XOrNan", "tonnage", 1),
       Objective("LogRegressionObjectiveMAE", "engine_power",
                 "Vessel-engine-Power", "XOrNan", "engine_power", 1),
       Objective("LogRegressionObjectiveMAE", "crew_size", "Vessel-Crew-Size",
                 "XOrNan", "crew_size", 1),
       Objective("MultiClassificationObjective", "Multiclass", "Vessel-class",
                 "vessel_metadata", "", 10) >>

\* {obj.name : obj for obj in objs}: a later entry replaces an earlier one
\* of the same name.
Last(objs, n) ==
    CHOOSE k \in 1..Len(objs) :
        /\ objs[k].name = n
        /\ \A j \in (k+1)..Len(objs) : objs[j].name # n

ObjectiveMap(objs) ==
    [n \in {objs[k].name : k \in 1..Len(objs)} |-> objs[Last(objs, n)]]

Names(objs) == {objs[k].name : k \in 1..Len(objs)}

ReservedKeys == {"mmsi", "time_ranges", "timestamps"}

(***************************************************************************)
(* Tensors are opaque tokens.                                              *)
(***************************************************************************)
Tensor(src, b, key) == [src |-> src, batch |-> b, key |-> key]
NoTensor == Tensor("", 0, "")
Event(op, obj, arg, training) ==
    [op |-> op, obj |-> obj, arg |-> arg, training |-> training]

EmptyDict == [k \in {} |-> NoTensor]
\* dict.update
Update(d, e) ==
    [k \in DOMAIN d \cup DOMAIN e |-> IF k \in DOMAIN e THEN e[k] ELSE d[k]]

NoResult ==
    [kind |-> "none", mode |-> "", has |-> {}, loss |-> 0,
     predictions |-> EmptyDict, eval_metric_ops |-> EmptyDict]

EstimatorSpec(m, has, loss, preds, metrics) ==
    [kind |-> "EstimatorSpec", mode |-> m, has |-> has, loss |-> loss,
     predictions |-> preds, eval_metric_ops |-> metrics]

AssertionError(m) == [NoResult EXCEPT !.kind = "AssertionError", !.mode = m]

(***************************************************************************)
(* _model_fn, one action per statement group.                              *)
(***************************************************************************)
\* lines 130-135.  The estimator passes labels = None in predict mode (the
\* prediction input function yields features only) and the label dictionary
\* of the input function otherwise; both are offered in predict mode.
ModelFn(m, b, withLabels) ==
    /\ pc \in {"idle", "done"}
    /\ calls < MaxCalls
    /\ (m # PREDICT) => withLabels
    /\ calls' = calls + 1
    /\ mode' = m
    /\ is_train' = (m = TRAIN)
    /\ features' = [k \in {"mmsi", "time_ranges", "timestamps", "features"}
                        |-> Tensor("features", b, k)]
    /\ labels' = [present |-> withLabels, batch |-> b]
    /\ trace' = << >>
    /\ i' = 0
    /\ predictions' = EmptyDict
    /\ total_loss' = 0
    /\ loss_ret' = << >>
    /\ eval_metrics' = EmptyDict
    /\ metric_ret' = << >>
    /\ result' = NoResult
    /\ pc' = "build"
    /\ UNCHANGED <<nonFnVars, prediction>>

\* variant: the backbone always built in training mode
BuildNet_AlwaysTraining ==
    /\ pc = "build"
    /\ trace' = Append(trace,
                  Event("_build_net", "", features["features"], TRUE))
    /\ prediction' = [n \in Names(training_objectives)
                          |-> Tensor("prediction", calls, n)]
    /\ pc' = "built"
    /\ UNCHANGED <<nonFnVars, mode, features, labels, is_train, i, predictions,
                   total_loss, loss_ret, eval_metrics, metric_ret, result,
                   calls>>

\* line 136 and _build_net (115-127): the backbone builds every objective,
\* which gives each its prediction tensor.
BuildNet ==
    /\ pc = "build"
    /\ trace' = Append(trace,
                  Event("_build_net", "", features["features"], is_train))
    /\ prediction' = [n \in Names(training_objectives)
                          |-> Tensor("prediction", calls, n)]
    /\ pc' = "built"
    /\ UNCHANGED <<nonFnVars, mode, features, labels, is_train, i, predictions,
                   total_loss, loss_ret, eval_metrics, metric_ret, result,
                   calls>>

\* variant: time_ranges and timestamps exchanged
PredictInit_Swapped ==
    /\ pc = "built"
    /\ mode = PREDICT
    /\ predictions' = [k \in ReservedKeys |->
                          IF k = "time_ranges" THEN features["timestamps"]
                          ELSE IF k = "timestamps" THEN features["time_ranges"]
                          ELSE features[k]]
    /\ i' = 1
    /\ pc' = "predict_loop"
    /\ UNCHANGED <<nonFnVars, mode, features, labels, is_train, prediction,
                   trace, total_loss, loss_ret, eval_metrics, metric_ret,
                   result, calls>>

\* lines 138-143
PredictInit ==
    /\ pc = "built"
    /\ mode = PREDICT
    /\ predictions' = [k \in ReservedKeys |-> features[k]]
    /\ i' = 1
    /\ pc' = "predict_loop"
    /\ UNCHANGED <<nonFnVars, mode, features, labels, is_train, prediction, trace,
                   total_loss, loss_ret, eval_metrics, metric_ret, result,
                   calls>>

\* lines 144-145, one iteration
PredictStep ==
    /\ pc = "predict_loop"
    /\ i <= Len(training_objectives)
    /\ LET obj == training_objectives[i] IN
        /\ trace' = Append(trace,
                      Event("prediction", obj.name, prediction[obj.name], FALSE))
        /\ predictions' = Update(predictions,
                              [k \in {obj.name} |-> prediction[obj.name]])
    /\ i' = i + 1
    /\ UNCHANGED <<nonFnVars, pc, mode, features, labels, is_train, prediction,
                   total_loss, loss_ret, eval_metrics, metric_ret, result,
                   calls>>

\* line 146
PredictReturn ==
    /\ pc = "predict_loop"
    /\ i > Len(training_objectives)
    /\ result' = EstimatorSpec(mode, {"predictions"}, 0, predictions, EmptyDict)
    /\ pc' = "done"
    /\ UNCHANGED <<nonFnVars, mode, features, labels, is_train, prediction, i, trace,
                   predictions, total_loss, loss_ret, eval_metrics, metric_ret,
                   calls>>

\* lines 148-150
LossInit ==
    /\ pc = "built"
    /\ mode # PREDICT
    /\ trace' = Append(trace, Event("get_global_step", "", NoTensor, FALSE))
    /\ total_loss' = 0
    /\ i' = 1
    /\ pc' = "loss_loop"
    /\ UNCHANGED <<nonFnVars, mode, features, labels, is_train, prediction, predictions,
                   loss_ret, eval_metrics, metric_ret, result, calls>>

\* variant: total_loss assigned instead of accumulated
LossStep_Assign(l) ==
    /\ pc = "loss_loop"
    /\ i <= Len(training_objectives)
    /\ labels.present
    /\ LET obj == training_objectives[i] IN
        trace' = trace \o
            << Event("labels", obj.name,
                     Tensor("labels", labels.batch, obj.name), FALSE),
               Event("create_loss", obj.name,
                     Tensor("labels", labels.batch, obj.name), FALSE) >>
    /\ loss_ret' = Append(loss_ret, l)
    /\ total_loss' = l
    /\ i' = i + 1
    /\ UNCHANGED <<nonFnVars, pc, mode, features, labels, is_train, prediction,
                   predictions, eval_metrics, metric_ret, result, calls>>

\* lines 151-152, one iteration; l is the loss the objective returns
LossStep(l) ==
    /\ pc = "loss_loop"
    /\ i <= Len(training_objectives)
    /\ labels.present
    /\ LET obj == training_objectives[i] IN
        trace' = trace \o
            << Event("labels", obj.name, Tensor("labels", labels.batch, obj.name), FALSE),
               Event("create_loss", obj.name,
                     Tensor("labels", labels.batch, obj.name), FALSE) >>
    /\ loss_ret' = Append(loss_ret, l)
    /\ total_loss' = total_loss + l
    /\ i' = i + 1
    /\ UNCHANGED <<nonFnVars, pc, mode, features, labels, is_train, prediction,
                   predictions, eval_metrics, metric_ret, result, calls>>

\* lines 154-156
LearningRate ==
    /\ pc = "loss_loop"
    /\ i > Len(training_objectives)
    /\ trace' = Append(trace, Event("exponential_decay", "", NoTensor, FALSE))
    /\ pc' = "rate"
    /\ UNCHANGED <<nonFnVars, mode, features, labels, is_train, prediction, i,
                   predictions, total_loss, loss_ret, eval_metrics, metric_ret,
                   result, calls>>

\* lines 158-167
TrainReturn ==
    /\ pc = "rate"
    /\ mode = TRAIN
    /\ trace' = trace \o
            << Event("AdamOptimizer", "", NoTensor, FALSE),
               Event("get_collection", "", NoTensor, FALSE),
               Event("minimize", "", NoTensor, FALSE) >>
    /\ result' = EstimatorSpec(mode, {"loss", "train_op"}, total_loss,
                               EmptyDict, EmptyDict)
    /\ pc' = "done"
    /\ UNCHANGED <<nonFnVars, mode, features, labels, is_train, prediction, i,
                   predictions, total_loss, loss_ret, eval_metrics, metric_ret,
                   calls>>

\* variant: no assertion, an unknown mode returns a spec like eval
AssertFail_NoAssert ==
    /\ pc = "rate"
    /\ mode # TRAIN
    /\ mode # EVAL
    /\ result' = EstimatorSpec(mode, {"loss", "eval_metric_ops"}, total_loss,
                               EmptyDict, EmptyDict)
    /\ pc' = "done"
    /\ UNCHANGED <<nonFnVars, mode, features, labels, is_train, prediction, i,
                   trace, predictions, total_loss, loss_ret, eval_metrics,
                   metric_ret, calls>>

\* line 169, assertion fails
AssertFail ==
    /\ pc = "rate"
    /\ mode # TRAIN
    /\ mode # EVAL
    /\ result' = AssertionError(mode)
    /\ pc' = "done"
    /\ UNCHANGED <<nonFnVars, mode, features, labels, is_train, prediction, i, trace,
                   predictions, total_loss, loss_ret, eval_metrics, metric_ret,
                   calls>>

\* lines 169-171, assertion holds
MetricsInit ==
    /\ pc = "rate"
    /\ mode # TRAIN
    /\ mode = EVAL
    /\ eval_metrics' = EmptyDict
    /\ i' = 1
    /\ pc' = "metrics_loop"
    /\ UNCHANGED <<nonFnVars, mode, features, labels, is_train, prediction, trace,
                   predictions, total_loss, loss_ret, metric_ret, result,
                   calls>>

\* What create_metrics of an objective may return: a dictionary keyed by
\* the objective's own metric name and possibly by a key other objectives
\* use as well.
MetricDicts(obj) ==
    { [k \in ks |-> Tensor("metric", 0, obj.name)] :
        ks \in { {obj.metadata_label}, {obj.metadata_label, "loss"} } }

\* lines 172-173, one iteration; d is the dictionary the objective returns
MetricsStep ==
    /\ pc = "metrics_loop"
    /\ i <= Len(training_objectives)
    /\ labels.present
    /\ LET obj == training_objectives[i] IN
        /\ trace' = trace \o
            << Event("labels", obj.name,
                     Tensor("labels", labels.batch, obj.name), FALSE),
               Event("create_metrics", obj.name,
                     Tensor("labels", labels.batch, obj.name), FALSE) >>
        /\ \E d \in MetricDicts(obj) :
              /\ metric_ret' = Append(metric_ret, d)
              /\ eval_metrics' = Update(eval_metrics, d)
    /\ i' = i + 1
    /\ UNCHANGED <<nonFnVars, pc, mode, features, labels, is_train, prediction,
                   predictions, total_loss, loss_ret, result, calls>>

\* lines 175-178
EvalReturn ==
    /\ pc = "metrics_loop"
    /\ i > Len(training_objectives)
    /\ result' = EstimatorSpec(mode, {"loss", "eval_metric_ops"}, total_loss,
                               EmptyDict, eval_metrics)
    /\ pc' = "done"
    /\ UNCHANGED <<nonFnVars, mode, features, labels, is_train, prediction, i, trace,
                   predictions, total_loss, loss_ret, eval_metrics, metric_ret,
                   calls>>

(***************************************************************************)
(* window_max_points (lines 58-65).                                        *)
(***************************************************************************)
MaxStrides == 3      \* stride lists of length 0..MaxStrides
MaxStride == 3       \* each stride in 1..MaxStride
MaxDurSamples == 24  \* window durations of 1..MaxDurSamples sample periods

RECURSIVE Prod(_)
\* np.prod
Prod(s) == IF s = << >> THEN 1 ELSE Head(s) * Prod(Tail(s))

\* round(num / den) for num >= 0, den > 0.  Python 2 rounds a tie away from
\* zero, Python 3 to the even neighbour; the file runs under either.
PyRounds == {"half_away", "half_even"}
Round(num, den, r) ==
    LET q == num \div den
        rem == num % den
    IN  IF 2 * rem < den THEN q
        ELSE IF 2 * rem > den THEN q + 1
        ELSE IF r = "half_away" THEN q + 1
        ELSE IF q % 2 = 0 THEN q ELSE q + 1

\* nominal_max_points = (duration / (5 * 60)) / 4, kept as duration / this
NominalDivisor == (5 * 60) * 4

\* variant: the rounded nominal count, not rescaled by the strides
WindowMaxPoints_NoScale(strideList, duration, r) ==
    Round(duration, NominalDivisor, r)

WindowMaxPoints(strideList, duration, r) ==
    LET layer_reductions == Prod(strideList)
        final_size == Round(duration, NominalDivisor * layer_reductions, r)
    IN  final_size * layer_reductions

\* class attributes and properties
ClassStrides == [k \in 1..9 |-> 2]
ClassMaxWindowDuration == 180 * 24 * 3600
BatchSize == 128
MinViableTimesliceLength == 500
DefaultPrefetch == 1024

RECURSIVE SeqsUpTo(_, _)
SeqsUpTo(S, n) ==
    IF n = 0 THEN {<< >>}
    ELSE LET shorter == SeqsUpTo(S, n - 1)
         IN  shorter \cup {Append(s, x) : s \in shorter, x \in S}

StrideLists == SeqsUpTo(1..MaxStride, MaxStrides) \cup {ClassStrides}
Durations == {k * (5 * 60) : k \in 1..MaxDurSamples}
                 \cup {ClassMaxWindowDuration}

\* reading the property
ReadWindowMaxPoints ==
    /\ max_points = -1
    /\ max_points' = WindowMaxPoints(strides, max_window_duration_seconds,
                                     pyround)
    /\ UNCHANGED <<modelVars, fnVars, labelVars, inputVars, strides,
                   max_window_duration_seconds, pyround>>

(***************************************************************************)
(* XOrNan (lines 74-82) and the label source given to each objective.      *)
(***************************************************************************)
MaxSmallLabel == 2   \* small label values 0..MaxSmallLabel
MaxBigLabel == 3     \* large label values 2^24 + (0..MaxBigLabel)
MaxMMSI == 2         \* vessels 1..MaxMMSI

Float32Bits == 24    \* significand of np.float32

Empty == [kind |-> "str", val |-> 0]       \* the label ''
Num(n) == [kind |-> "num", val |-> n]
NaN == [kind |-> "nan", val |-> 0]
ValueError == [kind |-> "ValueError", val |-> 0]

LabelValues ==
    {Empty} \cup {Num(n) : n \in 0..MaxSmallLabel}
            \cup {Num(2^Float32Bits + n) : n \in 0..MaxBigLabel}

RECURSIVE Ulp(_, _)
\* spacing of single-precision numbers around n >= 0
Ulp(n, u) == IF n < u * 2^Float32Bits THEN u ELSE Ulp(n, 2 * u)

\* nearest single-precision number to the integer n >= 0, ties to even
Float32Round(n) ==
    LET u == Ulp(n, 1) IN Round(n, u, "half_even") * u

\* np.float32(x): NaN stays NaN, a number is rounded to single precision,
\* the empty string does not parse
np_float32(x) ==
    IF x.kind = "nan" THEN NaN
    ELSE IF x.kind = "num" THEN Num(Float32Round(x.val))
    ELSE ValueError

\* variant: a missing label replaced by zero
XOrNan_Zero(x) == np_float32(IF x = Empty THEN Num(0) ELSE x)

\* variant: no replacement of a missing label
XOrNan_NoSubstitute(x) == np_float32(x)

\* XOrNan.__call__ with x = vessel_metadata.vessel_label(self.key, mmsi)
XOrNan(x) == np_float32(IF x = Empty THEN NaN ELSE x)

MetadataKeys == {"length", "tonnage", "engine_power", "crew_size", "label"}

NoLabelCall ==
    [obj |-> "", label_from |-> "", key |-> "", mmsi |-> 0, raw |-> Empty,
     value |-> Empty]

\* The label of vessel mmsi as objective k obtains it from the label source
\* it was constructed with; x is what the metadata provider holds.  The
\* regression objectives call their XOrNan; the classification objective
\* was given the provider itself and reads whichever key it wants.
ObjectiveLabel(k, key, mmsi, x) ==
    LET obj == training_objectives[k] IN
    /\ obj.label_from = "XOrNan" => key = obj.key
    /\ label_call' =
          [obj |-> obj.name, label_from |-> obj.label_from, key |-> key,
           mmsi |-> mmsi, raw |-> x,
           value |-> IF obj.label_from = "XOrNan" THEN XOrNan(x) ELSE x]
    /\ UNCHANGED <<modelVars, fnVars, windowVars, inputVars>>

(***************************************************************************)
(* Input-function factories (lines 194-228).                               *)
(***************************************************************************)
TRAINING_SPLIT == "Training"
TEST_SPLIT == "Test"

MaxPaths == 2        \* feature paths 1..MaxPaths
MaxParallelism == 2  \* parallelism 1..MaxParallelism
MaxPrefetch == 2     \* explicit prefetch sizes 1..MaxPrefetch
MaxRanges == 2       \* range_info values 1..MaxRanges

Stage(op, n) == [op |-> op, n |-> n]

NoStream ==
    [source |-> "none",
     given |-> [path |-> 0, parallelism |-> 0, prefetch |-> 0],
     metadata |-> "", files |-> [path |-> 0, split |-> ""], dims |-> 0,
     duration |-> 0, time_ranges |-> 0, max_points |-> 0, min_len |-> 0,
     objectives |-> << >>, parallelism |-> 0, stages |-> << >>]

\* variant: the stream is not shuffled
MakeInputFn_NoShuffle(base_feature_path, split, parallelism, prefetch) ==
    [source |-> "input_fn",
     given |-> [path |-> base_feature_path, parallelism |-> parallelism,
                prefetch |-> prefetch],
     metadata |-> "vessel_metadata",
     files |-> [path |-> base_feature_path, split |-> split],
     dims |-> num_feature_dimensions + 1,
     duration |-> ClassMaxWindowDuration,
     time_ranges |-> 0,
     max_points |-> WindowMaxPoints(ClassStrides, ClassMaxWindowDuration,
                                    pyround),
     min_len |-> MinViableTimesliceLength,
     objectives |-> training_objectives,
     parallelism |-> parallelism,
     stages |-> << Stage("prefetch", prefetch), Stage("batch", BatchSize) >>]

\* variant: the test split reads the training files
MakeInputFn_TrainingFiles(base_feature_path, split, parallelism, prefetch) ==
    [source |-> "input_fn",
     given |-> [path |-> base_feature_path, parallelism |-> parallelism,
                prefetch |-> prefetch],
     metadata |-> "vessel_metadata",
     files |-> [path |-> base_feature_path, split |-> TRAINING_SPLIT],
     dims |-> num_feature_dimensions + 1,
     duration |-> ClassMaxWindowDuration,
     time_ranges |-> 0,
     max_points |-> WindowMaxPoints(ClassStrides, ClassMaxWindowDuration,
                                    pyround),
     min_len |-> MinViableTimesliceLength,
     objectives |-> training_objectives,
     parallelism |-> parallelism,
     stages |-> << Stage("prefetch", prefetch), Stage("shuffle", prefetch),
                   Stage("batch", BatchSize) >>]

\* make_input_fn and a call of the input_fn it returns
MakeInputFn(base_feature_path, split, parallelism, prefetch) ==
    [source |-> "input_fn",
     given |-> [path |-> base_feature_path, parallelism |-> parallelism,
                prefetch |-> prefetch],
     metadata |-> "vessel_metadata",
     files |-> [path |-> base_feature_path, split |-> split],
     dims |-> num_feature_dimensions + 1,
     duration |-> ClassMaxWindowDuration,
     time_ranges |-> 0,
     max_points |-> WindowMaxPoints(ClassStrides, ClassMaxWindowDuration,
                                    pyround),
     min_len |-> MinViableTimesliceLength,
     objectives |-> training_objectives,
     parallelism |-> parallelism,
     stages |-> << Stage("prefetch", prefetch), Stage("shuffle", prefetch),
                   Stage("batch", BatchSize) >>]

MakeTrainingInputFn(base_feature_path, parallelism, prefetch) ==
    /\ train_stream' = MakeInputFn(base_feature_path, TRAINING_SPLIT,
                                   parallelism, prefetch)
    /\ UNCHANGED <<modelVars, fnVars, windowVars, labelVars, test_stream,
                   predict_stream>>

MakeTestInputFn(base_feature_path, parallelism, prefetch) ==
    /\ test_stream' = MakeInputFn(base_feature_path, TEST_SPLIT,
                                  parallelism, prefetch)
    /\ UNCHANGED <<modelVars, fnVars, windowVars, labelVars, train_stream,
                   predict_stream>>

\* make_prediction_input_fn and a call of the input_fn it returns
MakePredictionInputFn(paths, range_info, parallelism) ==
    /\ predict_stream' =
          [source |-> "predict_input_fn",
           given |-> [path |-> paths, parallelism |-> parallelism,
                      prefetch |-> 0],
           metadata |-> "",
           files |-> [path |-> paths, split |-> ""],
           dims |-> num_feature_dimensions + 1,
           duration |-> 0,
           time_ranges |-> range_info,
           max_points |-> WindowMaxPoints(ClassStrides, ClassMaxWindowDuration,
                                          pyround),
           min_len |-> MinViableTimesliceLength,
           objectives |-> << >>,
           parallelism |-> parallelism,
           stages |-> << Stage("batch", 1) >>]
    /\ UNCHANGED <<modelVars, fnVars, windowVars, labelVars, train_stream,
                   test_stream>>

Prefetches == {DefaultPrefetch} \cup (1..MaxPrefetch)

(***************************************************************************)
(* Specifications.                                                         *)
(***************************************************************************)
\* state after Model(num_feature_dimensions, vessel_metadata, metrics)
ConstructedInit ==
    /\ num_feature_dimensions \in 1..MaxDims
    /\ training_objectives = InitObjectives
    /\ objective_map = ObjectiveMap(InitObjectives)
    /\ pc = "idle"
    /\ mode = ""
    /\ features = [k \in {"mmsi", "time_ranges", "timestamps", "features"}
                       |-> NoTensor]
    /\ labels = [present |-> FALSE, batch |-> 0]
    /\ is_train = FALSE
    /\ prediction = [n \in Names(InitObjectives) |-> NoTensor]
    /\ i = 0
    /\ trace = << >>
    /\ predictions = EmptyDict
    /\ total_loss = 0
    /\ loss_ret = << >>
    /\ eval_metrics = EmptyDict
    /\ metric_ret = << >>
    /\ result = NoResult
    /\ calls = 0
    /\ pyround \in PyRounds
    /\ max_points = -1
    /\ label_call = NoLabelCall
    /\ train_stream = NoStream
    /\ test_stream = NoStream
    /\ predict_stream = NoStream

Init ==
    /\ ConstructedInit
    /\ strides = ClassStrides
    /\ max_window_duration_seconds = ClassMaxWindowDuration

Next ==
    \/ \E m \in Modes, b \in 1..MaxBatch, w \in BOOLEAN : ModelFn(m, b, w)
    \/ BuildNet
    \/ PredictInit
    \/ PredictStep
    \/ PredictReturn
    \/ LossInit
    \/ \E l \in 1..MaxLoss : LossStep(l)
    \/ LearningRate
    \/ TrainReturn
    \/ AssertFail
    \/ MetricsInit
    \/ MetricsStep
    \/ EvalReturn

Spec == Init /\ [][Next]_vars

\* window_max_points over stride lists and durations
WindowInit ==
    /\ ConstructedInit
    /\ strides \in StrideLists
    /\ max_window_duration_seconds \in Durations

WindowNext == ReadWindowMaxPoints

SpecWindow == WindowInit /\ [][WindowNext]_vars

\* label hand-off
LabelNext ==
    \E k \in 1..Len(training_objectives), key \in MetadataKeys,
       mmsi \in 1..MaxMMSI, x \in LabelValues :
        ObjectiveLabel(k, key, mmsi, x)

SpecLabels == Init /\ [][LabelNext]_vars

\* input functions
InputNext ==
    \/ \E p \in 1..MaxPaths, par \in 1..MaxParallelism, pre \in Prefetches :
          MakeTrainingInputFn(p, par, pre)
    \/ \E p \in 1..MaxPaths, par \in 1..MaxParallelism, pre \in Prefetches :
          MakeTestInputFn(p, par, pre)
    \/ \E p \in 1..MaxPaths, r \in 1..MaxRanges, par \in 1..MaxParallelism :
          MakePredictionInputFn(p, r, par)

SpecInput == Init /\ [][InputNext]_vars

(***************************************************************************)
(* Properties.                                                             *)
(***************************************************************************)
Abs(x) == IF x < 0 THEN -x ELSE x

TraceOps == {trace[k].op : k \in 1..Len(trace)}
IsCreateLoss(e) == e.op = "create_loss"
IsCreateMetrics(e) == e.op = "create_metrics"
IsBuild(e) == e.op = "_build_net"

RECURSIVE Sum(_)
Sum(s) == IF s = << >> THEN 0 ELSE Head(s) + Sum(Tail(s))

\* C1: window_max_points is a multiple of the product of the stride list,
\* namely the multiple nearest to duration / 300 / 4; for nine strides of 2
\* and 180 days it is a multiple of 512.
C1_WindowMultipleOfStrides ==
    max_points # -1 =>
        /\ max_points >= 0
        /\ max_points % Prod(strides) = 0
        /\ 2 * Abs(max_points * NominalDivisor - max_window_duration_seconds)
              <= NominalDivisor * Prod(strides)
        /\ (strides = ClassStrides
               /\ max_window_duration_seconds = ClassMaxWindowDuration)
              => max_points % 512 = 0

C1_Witness ==
    /\ strides = ClassStrides
    /\ max_window_duration_seconds = ClassMaxWindowDuration
    /\ max_points = 12800

C6_BuildOnceFirst ==
    /\ pc \in {"idle", "build"} => trace = << >>
    /\ pc \notin {"idle", "build"} =>
          /\ Len(SelectSeq(trace, IsBuild)) = 1
          /\ trace[1].op = "_build_net"
          /\ trace[1].training = (mode = TRAIN)
    /\ \A k \in 1..Len(trace) :
          trace[k].op \in {"prediction", "create_loss", "create_metrics"} =>
              \E j \in 1..(k - 1) : trace[j].op = "_build_net"
    /\ \A k \in 1..Len(trace) :
          trace[k].op = "prediction" => trace[k].arg.batch = calls

C6_Witness ==
    /\ pc = "done"
    /\ calls = MaxCalls
    /\ mode = TRAIN
    /\ trace[1].training
    /\ "create_loss" \in TraceOps

\* C7: in predict mode the model function never reads labels, never calls
\* create_loss or create_metrics and makes no optimizer or train op; the
\* returned spec has predictions only, keyed by mmsi, time_ranges,
\* timestamps and every objective name, the first three taken unchanged
\* from the input features.
C7_PredictFrame ==
    mode = PREDICT =>
        /\ TraceOps \cap {"labels", "create_loss", "create_metrics",
                          "get_global_step", "exponential_decay",
                          "AdamOptimizer", "get_collection", "minimize"} = {}
        /\ pc = "done" =>
              /\ result.kind = "EstimatorSpec"
              /\ result.has = {"predictions"}
              /\ DOMAIN result.predictions
                    = ReservedKeys \cup Names(training_objectives)
              /\ \A k \in ReservedKeys : result.predictions[k] = features[k]
              /\ \A n \in Names(training_objectives) :
                    result.predictions[n] = prediction[n]

C7_Witness ==
    /\ pc = "done"
    /\ mode = PREDICT
    /\ labels.present
    /\ result.predictions["mmsi"] = Tensor("features", labels.batch, "mmsi")

\* the dictionary eval_metrics.update builds from the returned dictionaries
MergedKeys(ds) == UNION {DOMAIN ds[k] : k \in 1..Len(ds)}
LastWith(ds, key) ==
    CHOOSE k \in 1..Len(ds) :
        /\ key \in DOMAIN ds[k]
        /\ \A j \in (k + 1)..Len(ds) : key \notin DOMAIN ds[j]

\* C8: in train and eval mode the loss of the returned spec is the sum of
\* the losses create_loss returned, create_loss being called once per
\* objective, in list order, on labels[objective name]; the train spec has
\* a train op and no eval metrics, the eval spec has no train op and the
\* union of the dictionaries create_metrics returned.
C8_LossAndMetrics ==
    (pc = "done" /\ mode \in {TRAIN, EVAL}) =>
        /\ result.loss = Sum(loss_ret)
        /\ LET cl == SelectSeq(trace, IsCreateLoss) IN
              /\ Len(cl) = Len(training_objectives)
              /\ Len(loss_ret) = Len(training_objectives)
              /\ \A k \in 1..Len(cl) :
                    /\ cl[k].obj = training_objectives[k].name
                    /\ cl[k].arg = Tensor("labels", labels.batch, cl[k].obj)
        /\ mode = TRAIN =>
              /\ result.has = {"loss", "train_op"}
              /\ "minimize" \in TraceOps
              /\ "create_metrics" \notin TraceOps
        /\ mode = EVAL =>
              /\ result.has = {"loss", "eval_metric_ops"}
              /\ "minimize" \notin TraceOps
              /\ LET cm == SelectSeq(trace, IsCreateMetrics) IN
                    /\ Len(cm) = Len(training_objectives)
                    /\ \A k \in 1..Len(cm) :
                          /\ cm[k].obj = training_objectives[k].name
                          /\ cm[k].arg
                                = Tensor("labels", labels.batch, cm[k].obj)
              /\ DOMAIN result.eval_metric_ops = MergedKeys(metric_ret)
              /\ \A key \in MergedKeys(metric_ret) :
                    result.eval_metric_ops[key]
                        = metric_ret[LastWith(metric_ret, key)][key]

C8_Witness ==
    /\ pc = "done"
    /\ mode = EVAL
    /\ result.loss > Len(training_objectives)
    /\ loss_ret[1] # loss_ret[2]
    /\ Cardinality(DOMAIN result.eval_metric_ops) > Len(training_objectives)

\* C10: the objective names are pairwise distinct and none is mmsi,
\* time_ranges or timestamps, so objective_map has one entry per objective
\* (five) and the predictions of predict mode have three plus five entries;
\* no step changes the objective list or objective_map.
C10_ObjectivesFixed ==
    /\ [](/\ Len(training_objectives) = 5
          /\ Cardinality(Names(training_objectives)) = 5
          /\ Names(training_objectives) \cap ReservedKeys = {}
          /\ DOMAIN objective_map = Names(training_objectives)
          /\ Cardinality(DOMAIN objective_map) = 5
          /\ \A k \in 1..Len(training_objectives) :
                objective_map[training_objectives[k].name]
                    = training_objectives[k]
          /\ (pc = "done" /\ mode = PREDICT) =>
                Cardinality(DOMAIN result.predictions) = 3 + 5)
    /\ [][/\ training_objectives' = training_objectives
          /\ objective_map' = objective_map]_vars

C10_Witness ==
    /\ pc = "done"
    /\ mode = PREDICT
    /\ calls = MaxCalls
    /\ Cardinality(DOMAIN result.predictions) = 8

Regression == {"length", "tonnage", "engine_power", "crew_size"}
StageOps(st) == {st.stages[k].op : k \in 1..Len(st.stages)}
Streams == {train_stream, test_stream, predict_stream}

\* C3 as stated: whenever the vessel-class label is missing from the
\* metadata, the label the classification objective gets is NaN.
C3_Original ==
    (label_call.obj = "Multiclass" /\ label_call.raw = Empty) =>
        label_call.value = NaN

\* C3 as amended: a missing label becomes NaN for the four regression
\* objectives, whose label source is an XOrNan; the classification
\* objective is given the metadata provider itself, so what it reads is the
\* provider's value with no substitution, and no label source validates.
C3_SubstitutionOnlyForRegression ==
    label_call.obj # "" =>
        /\ label_call.obj \in Regression =>
              /\ label_call.label_from = "XOrNan"
              /\ label_call.key = label_call.obj
              /\ label_call.raw = Empty => label_call.value = NaN
        /\ label_call.obj = "Multiclass" =>
              /\ label_call.label_from = "vessel_metadata"
              /\ label_call.value = label_call.raw
        /\ label_call.value.kind # "ValueError"

C3_Witness ==
    /\ label_call.obj = "Multiclass"
    /\ label_call.key = "label"
    /\ label_call.raw = Empty
    /\ label_call.value = Empty

\* C5 as stated: XOrNan returns NaN exactly for the empty label, any other
\* label's value unchanged, and never an error.
C5_Original ==
    label_call.label_from = "XOrNan" =>
        /\ (label_call.value = NaN) <=> (label_call.raw = Empty)
        /\ label_call.raw # Empty => label_call.value = label_call.raw
        /\ label_call.value.kind # "ValueError"

\* C5 as amended: XOrNan returns NaN exactly for the empty label and never
\* an error; any other label comes back as the nearest single-precision
\* number, which is the label's value itself up to 2^24.
C5_XOrNanFloat32 ==
    label_call.label_from = "XOrNan" =>
        /\ (label_call.value = NaN) <=> (label_call.raw = Empty)
        /\ label_call.value.kind # "ValueError"
        /\ label_call.raw # Empty =>
              /\ label_call.value.kind = "num"
              /\ label_call.value.val % Ulp(label_call.value.val, 1) = 0
              /\ 2 * Abs(label_call.value.val - label_call.raw.val)
                     <= Ulp(label_call.raw.val, 1)
              /\ label_call.raw.val <= 2^Float32Bits =>
                     label_call.value = label_call.raw

C5_Witness ==
    /\ label_call.label_from = "XOrNan"
    /\ label_call.raw.kind = "num"
    /\ label_call.raw.val > 2^Float32Bits
    /\ label_call.value.kind = "num"
    /\ label_call.value.val # label_call.raw.val

\* C4 as stated: the training, evaluation and prediction streams all have
\* prefetch, shuffle and batch applied.
C4_Original ==
    \A st \in Streams :
        st.source # "none" => {"prefetch", "shuffle", "batch"} \subseteq StageOps(st)

\* C4 as amended: the training and evaluation streams have prefetch,
\* shuffle and batch applied; the prediction stream is only batched, in
\* batches of one.
C4_TrainEvalShuffledPredictBatched ==
    /\ \A st \in {train_stream, test_stream} :
          st.source # "none" =>
              /\ st.source = "input_fn"
              /\ StageOps(st) = {"prefetch", "shuffle", "batch"}
              /\ Len(st.stages) = 3
    /\ predict_stream.source # "none" =>
          /\ predict_stream.source = "predict_input_fn"
          /\ predict_stream.stages = << Stage("batch", 1) >>

C4_Witness ==
    /\ train_stream.source = "input_fn"
    /\ test_stream.source = "input_fn"
    /\ predict_stream.source = "predict_input_fn"
    /\ StageOps(predict_stream) = {"batch"}

\* what both input functions pass on, given the factory's arguments
SharedArguments(st) ==
    /\ st.metadata = "vessel_metadata"
    /\ st.files.path = st.given.path
    /\ st.dims = num_feature_dimensions + 1
    /\ st.duration = 180 * 24 * 3600
    /\ st.max_points = 12800
    /\ st.min_len = 500
    /\ st.objectives = training_objectives
    /\ st.parallelism = st.given.parallelism
    /\ st.stages = << Stage("prefetch", st.given.prefetch),
                      Stage("shuffle", st.given.prefetch),
                      Stage("batch", 128) >>

\* C9: the training and test input functions differ only in the split of
\* the file list; both pass the metadata, num_feature_dimensions + 1, the
\* window duration, window_max_points, the minimum timeslice length and the
\* objectives, and apply prefetch(prefetch), shuffle(prefetch), batch(128)
\* in that order.
C9_TrainTestDifferOnlyInSplit ==
    /\ train_stream.source # "none" =>
          (SharedArguments(train_stream)
              /\ train_stream.files.split = TRAINING_SPLIT)
    /\ test_stream.source # "none" =>
          (SharedArguments(test_stream)
              /\ test_stream.files.split = TEST_SPLIT)
    /\ (/\ train_stream.source # "none"
        /\ test_stream.source # "none"
        /\ train_stream.given = test_stream.given) =>
          /\ train_stream # test_stream
          /\ [train_stream EXCEPT !.files.split = TEST_SPLIT] = test_stream

C9_Witness ==
    /\ train_stream.source = "input_fn"
    /\ test_stream.source = "input_fn"
    /\ train_stream.given = test_stream.given
    /\ train_stream.given.prefetch = DefaultPrefetch
    /\ train_stream.files.split # test_stream.files.split

====
